---- MODULE Spec2Model ----
(***************************************************************************)
(* Model of the ZSH completion plugin (src/plugin.py).                     *)
(*                                                                         *)
(* Text is modelled as sequences of one-character strings, so that the     *)
(* zsh read loop, Python's str.split and the " -- " separator are computed *)
(* character by character.  The pseudo-terminal of the captured zsh        *)
(* session delivers lines that end in CR; `read` strips the LF.            *)
(***************************************************************************)
EXTENDS Integers, Sequences, FiniteSets, TLC

\* ------------------------------------------------------------------ bounds
MaxReq == 2          \* request slots that can be in flight at once
MaxSession == 3      \* lines a captured session writes to the pty (Spec)
MaxPtyLen == 6       \* lines of a pty stream fed to the read loop (SpecLoop)
MaxLines == 4        \* lines of one output handed to completion_items (SpecItems)

\* -------------------------------------------------------------- characters
NUL == "NUL"
CR == "CR"
LF == "LF"
SP == " "
DASH == "-"

\* the literal separator of line.split(" -- ", 1)
SEP == <<SP, DASH, DASH, SP>>
\* the literal separator of str(...).split("\r\n")
CRLF == <<CR, LF>>
\* details of an item whose line has no separator
DEFAULT_DETAILS == <<"f", "i", "l", "e", SP, "o", "r", SP, "f", "o", "l", "d", "e", "r">>

None == "None"

\* sublime.CompletionList(None): a list set_completions has not been called on
CompletionList == [set |-> FALSE, items |-> <<>>]

\* CompletionList.set_completions(items)
set_completions(list, items) == [set |-> TRUE, items |-> items]

\* lines the pty of the captured session can deliver (each ends in CR)
PtyLine ==
  { <<NUL, CR>>,
    <<"a", NUL, CR>>,
    <<"a", CR>>,
    <<"b", CR>> }

RECURSIVE SeqsOfLen(_, _)
SeqsOfLen(S, n) ==
  IF n = 0 THEN {<<>>}
  ELSE {Append(s, x) : s \in SeqsOfLen(S, n - 1), x \in S}

SeqsUpTo(S, n) == UNION {SeqsOfLen(S, k) : k \in 0 .. n}

PtyStreams == SeqsUpTo(PtyLine, MaxPtyLen)

\* lines of the outputs that SpecItems hands to completion_items
RawLine ==
  { <<"a", CR>>,
    <<"b", CR>>,
    <<"c", CR>>,
    <<"a", SP, DASH, DASH, SP, "d", CR>>,
    <<"b", SP, DASH, DASH, SP, "d", SP, DASH, DASH, SP, "e", CR>>,
    <<CR>> }

RawBatches == SeqsUpTo(RawLine, MaxLines)

\* words KNOWN_COMPLETIONS can hold in SpecItems
KnownWords == {<<"a">>, <<"b">>}

\* lines of the sessions that Spec runs
SessionLine ==
  { <<NUL, CR>>,
    <<"a", CR>>,
    <<"a", SP, DASH, DASH, SP, "d", CR>> }

SessionStreams == SeqsUpTo(SessionLine, MaxSession)

\* triggers a ShellScript completions resource can list ("" is falsy)
TriggerSet == {<<>>, <<"a">>}

\* return codes of a zsh that ends abnormally (killed, or any other code)
AbnormalCodes == {-9, 3}

Req == 1 .. MaxReq

\* ------------------------------------------------- Python string functions
\* s[i : i + len(sep)] == sep
HasAt(s, sep, i) ==
  /\ i + Len(sep) - 1 <= Len(s)
  /\ SubSeq(s, i, i + Len(sep) - 1) = sep

\* str.find, 1-based, 0 when absent
RECURSIVE Find(_, _, _)
Find(s, sep, i) ==
  IF i + Len(sep) - 1 > Len(s) THEN 0
  ELSE IF HasAt(s, sep, i) THEN i
  ELSE Find(s, sep, i + 1)

\* str.split(sep)
RECURSIVE Split(_, _)
Split(s, sep) ==
  LET i == Find(s, sep, 1)
  IN IF i = 0 THEN <<s>>
     ELSE <<SubSeq(s, 1, i - 1)>> \o Split(SubSeq(s, i + Len(sep), Len(s)), sep)

\* faulty variant: str.split(sep), the maxsplit argument forgotten
Split1_all(s, sep) == Split(s, sep)

\* str.split(sep, 1)
Split1(s, sep) ==
  LET i == Find(s, sep, 1)
  IN IF i = 0 THEN <<s>>
     ELSE <<SubSeq(s, 1, i - 1), SubSeq(s, i + Len(sep), Len(s))>>

\* ------------------------------------------------ the zsh capture script
\* faulty variant: [[ $line == $'\0\r' ]], the whole line compared
IsToggleLine_exact(line) == line = <<NUL, CR>>

\* [[ $line == *$'\0\r' ]]
IsToggleLine(line) ==
  /\ Len(line) >= 2
  /\ line[Len(line) - 1] = NUL
  /\ line[Len(line)] = CR

\* (( tog )): lines are echoed once the first toggle line has been read
Reporting(tog) == tog # 0

\* the `while IFS= read -r line` loop and the `return 2` after it: the lines
\* echoed and the status the anonymous function returns
RECURSIVE ReadLoop(_, _, _)
ReadLoop(lines, i, tog) ==
  IF i > Len(lines) THEN [echoed |-> <<>>, status |-> 2]
  ELSE IF IsToggleLine(lines[i])
       THEN IF tog # 0 THEN [echoed |-> <<>>, status |-> 0]
            ELSE ReadLoop(lines, i + 1, tog + 1)
       ELSE LET rest == ReadLoop(lines, i + 1, tog)
            IN IF Reporting(tog)
               THEN [echoed |-> <<lines[i]>> \o rest.echoed, status |-> rest.status]
               ELSE rest

\* echo -E - $line, one after the other: the bytes on stdout
RECURSIVE Echo(_)
Echo(lines) ==
  IF lines = <<>> THEN <<>>
  ELSE Head(lines) \o <<LF>> \o Echo(Tail(lines))

\* One run of the script.  how.kind is "nozpty" (zmodload fails, exit 1),
\* "initerr" (no ok from the spawned shell, exit 2), "session" (the pty
\* stream how.pty is read to its end) or "abnormal" (zsh ends with how.code).
ZshCapture(how) ==
  IF how.kind = "nozpty" THEN [stdout |-> <<>>, returncode |-> 1]
  ELSE IF how.kind = "initerr" THEN [stdout |-> <<>>, returncode |-> 2]
  ELSE IF how.kind = "abnormal" THEN [stdout |-> <<>>, returncode |-> how.code]
  ELSE LET run == ReadLoop(how.pty, 1, 0)
       IN [stdout |-> Echo(run.echoed), returncode |-> run.status]

Runs(streams) ==
  {[kind |-> "nozpty", pty |-> <<>>, code |-> 1],
   [kind |-> "initerr", pty |-> <<>>, code |-> 2]}
  \cup {[kind |-> "abnormal", pty |-> <<>>, code |-> c] : c \in AbnormalCodes}
  \cup {[kind |-> "session", pty |-> p, code |-> 0] : p \in streams}

SessionRuns == Runs(SessionStreams)
PtyRuns == Runs(PtyStreams)

\* ------------------------------------------------------ completion_items
CompletionItem(word, parts) ==
  [trigger |-> word,
   annotation |-> "ZSH",
   details |-> IF Len(parts) > 1 THEN parts[2] ELSE DEFAULT_DETAILS]

\* faulty variant: the `if word in found: continue` test is missing
Dropped_knownOnly(word, found, known) == word \in known

\* the two `continue` tests of the loop
Dropped(word, found, known) == word \in known \/ word \in found

RECURSIVE ItemsLoop(_, _, _, _)
ItemsLoop(lines, i, found, known) ==
  IF i > Len(lines) THEN <<>>
  ELSE LET parts == Split1(lines[i], SEP)
           word == parts[1]
       IN IF Dropped(word, found, known)
          THEN ItemsLoop(lines, i + 1, found, known)
          ELSE <<CompletionItem(word, parts)>>
               \o ItemsLoop(lines, i + 1, found \cup {word}, known)

completion_items(data, known) == ItemsLoop(Split(data, CRLF), 1, {}, known)

\* ------------------------------------------------------------------ state
VARIABLES
  enabled,            \* ZshCompletionListener.enabled
  KNOWN_COMPLETIONS,  \* the module global built by plugin_loaded
  loader,             \* plugin_loaded: "idle", or "scan" inside its for loops
  req,                \* per request slot: the call of on_query_completions,
                      \* its CompletionList and its get_completions callback
  asyncQueue,         \* callbacks handed to sublime.set_timeout_async, FIFO
  proc,               \* the subprocess of the latest check_output call
  log,                \* the lines print() wrote
  view                \* the sublime.View: the text of the line at pt and the
                      \* file name

vars == <<enabled, KNOWN_COMPLETIONS, loader, req, asyncQueue, proc, log, view>>

NoProc == [req |-> 0, state |-> "none", kind |-> "none", pty |-> <<>>,
           stdout |-> <<>>, returncode |-> 0, args |-> <<>>, cwd |-> <<>>]

\* The file name of a view and the cwd of a process are optional values:
\* <<>> is Python's None and <<p>> is the path p.
\* the view a session starts with: an unsaved buffer
NewView == [line |-> <<"a">>, file_name |-> <<>>]

\* os.path.dirname(p): what stands before the last "/" of p
RECURSIVE dirname(_)
dirname(p) ==
  IF p = <<>> THEN <<>>
  ELSE IF p[Len(p)] = "/"
       THEN IF Len(p) = 1 THEN p ELSE SubSeq(p, 1, Len(p) - 1)
       ELSE dirname(SubSeq(p, 1, Len(p) - 1))

\* cwd = os.path.dirname(file_name) if file_name else None
Cwd(file_name) ==
  IF file_name # <<>> /\ file_name[1] # <<>>
  THEN <<dirname(file_name[1])>>
  ELSE <<>>

\* args = ZSH_CAPTURE_COMPLETION + " " + view.substr(view.line(pt))
Args(line) == <<"ZSH_CAPTURE_COMPLETION", SP>> \o line

\* History of a request in flight, kept for stating properties only (the
\* code keeps none of it): KNOWN_COMPLETIONS, the text of the line and the
\* directory as they were when on_query_completions was called.
NoCall == [known |-> {}, text |-> <<>>, cwd |-> <<>>]
AtCall == [known |-> KNOWN_COMPLETIONS, text |-> view.line,
           cwd |-> Cwd(view.file_name)]

\* a slot on which on_query_completions has not been called
FreshReq == [pc |-> "idle", ret |-> "none", completions_list |-> CompletionList,
             called |-> NoCall]

KnownSets == {{t \in Range : t # <<>>} : Range \in SUBSET TriggerSet}

Init ==
  /\ enabled = TRUE
  /\ KNOWN_COMPLETIONS \in KnownSets
  /\ loader = "idle"
  /\ req = [r \in Req |-> FreshReq]
  /\ asyncQueue = <<>>
  /\ proc = NoProc
  /\ log = <<>>
  /\ view = NewView

\* ---------------------------------------------------------- plugin_loaded
\* if trigger: KNOWN_COMPLETIONS.add(trigger)
AddTrigger(known, trigger) ==
  IF trigger # <<>> THEN known \cup {trigger} ELSE known

\* global KNOWN_COMPLETIONS; KNOWN_COMPLETIONS = set()
PluginLoadedBegin ==
  /\ loader = "idle"
  /\ loader' = "scan"
  /\ KNOWN_COMPLETIONS' = {}
  /\ UNCHANGED <<enabled, req, asyncQueue, proc, log, view>>

\* one turn of `for item in data["completions"]`, for the next trigger the
\* resources hold
PluginLoadedItem(trigger) ==
  /\ loader = "scan"
  /\ KNOWN_COMPLETIONS' = AddTrigger(KNOWN_COMPLETIONS, trigger)
  /\ UNCHANGED <<enabled, loader, req, asyncQueue, proc, log, view>>

\* the resources are exhausted and plugin_loaded returns
PluginLoadedEnd ==
  /\ loader = "scan"
  /\ loader' = "idle"
  /\ UNCHANGED <<enabled, KNOWN_COMPLETIONS, req, asyncQueue, proc, log, view>>

\* --------------------------------------------------- on_query_completions
\* faulty variant: the `if not self.enabled: return None` test is missing
QueryAccepted_ignoring(en, match) == match

\* what the call returns: None, or a new CompletionList
QueryAccepted(en, match) == en /\ match

\* A call on slot r (a slot whose earlier request has resolved is used
\* again for a new call); match is view.match_selector(pt, ...).
on_query_completions(r, match) ==
  /\ req[r].pc \in {"idle", "done"}
  /\ IF QueryAccepted(enabled, match)
     THEN /\ req' = [req EXCEPT ![r] = [pc |-> "queued", ret |-> "list",
                                          completions_list |-> CompletionList,
                                          called |-> AtCall]]
          /\ asyncQueue' = Append(asyncQueue, r)
     ELSE /\ req' = [req EXCEPT ![r] = [pc |-> "done", ret |-> None,
                                          completions_list |-> CompletionList,
                                          called |-> NoCall]]
          /\ UNCHANGED asyncQueue
  /\ UNCHANGED <<enabled, KNOWN_COMPLETIONS, loader, proc, log, view>>

\* -------------------------------------------------------- get_completions
\* the async thread runs one callback at a time
AsyncBusy == \E r \in Req : req[r].pc = "launched"

\* faulty variant: a call that returns sets self.enabled = True again
EnabledAfter_reset(en, exc, returncode) ==
  IF exc = "FileNotFoundError" THEN FALSE
  ELSE IF exc = "CalledProcessError" /\ returncode \in {1, 2} THEN FALSE
  ELSE IF exc = "returned" THEN TRUE
  ELSE en

\* faulty variant: `if e.returncode in (1,)`
EnabledAfter_only1(en, exc, returncode) ==
  IF exc = "FileNotFoundError" THEN FALSE
  ELSE IF exc = "CalledProcessError" /\ returncode \in {1} THEN FALSE
  ELSE en

\* faulty variant: every CalledProcessError disables
EnabledAfter_anycode(en, exc, returncode) ==
  IF exc = "FileNotFoundError" THEN FALSE
  ELSE IF exc = "CalledProcessError" THEN FALSE
  ELSE en

\* the value of self.enabled when get_completions ends: check_output has
\* raised `exc`, or has returned ("returned")
EnabledAfter(en, exc, returncode) ==
  IF exc = "FileNotFoundError" THEN FALSE
  ELSE IF exc = "CalledProcessError" /\ returncode \in {1, 2} THEN FALSE
  ELSE en

\* the lines printed when check_output raised `exc`
Printed(exc, returncode) ==
  IF exc = "FileNotFoundError" THEN <<"ZSH not found, disabling completions!">>
  ELSE IF exc = "CalledProcessError" /\ returncode \in {1, 2}
       THEN <<"ZSH Completion initialization failed, disabling completions!">>
  ELSE <<>>

\* the callback of slot r is taken from the queue and calls check_output;
\* found: whether the executable "zsh" exists
GetCompletionsCall(r, found) ==
  /\ ~AsyncBusy
  /\ asyncQueue # <<>>
  /\ r = Head(asyncQueue)
  /\ asyncQueue' = Tail(asyncQueue)
  /\ IF found
     THEN /\ req' = [req EXCEPT ![r].pc = "launched"]
          /\ proc' = [NoProc EXCEPT !.req = r, !.state = "running",
                                    !.args = Args(view.line),
                                    !.cwd = Cwd(view.file_name)]
          /\ UNCHANGED <<enabled, log>>
     ELSE /\ req' = [req EXCEPT ![r].pc = "done", ![r].called = NoCall]
          /\ proc' = [NoProc EXCEPT !.req = r, !.state = "notfound"]
          /\ enabled' = EnabledAfter(enabled, "FileNotFoundError", 0)
          /\ log' = log \o Printed("FileNotFoundError", 0)
  /\ UNCHANGED <<KNOWN_COMPLETIONS, loader, view>>

\* faulty variant: the exception is raised and zsh is left running
Timeout_leftRunning(r) ==
  /\ req[r].pc = "launched"
  /\ proc.req = r /\ proc.state = "running"
  /\ proc' = proc
  /\ req' = [req EXCEPT ![r].pc = "done", ![r].called = NoCall]
  /\ enabled' = EnabledAfter(enabled, "TimeoutExpired", 0)
  /\ log' = log \o Printed("TimeoutExpired", 0)
  /\ UNCHANGED <<KNOWN_COMPLETIONS, loader, asyncQueue, view>>

\* the 4.0 s pass before zsh ends: check_output kills it and raises
Timeout(r) ==
  /\ req[r].pc = "launched"
  /\ proc.req = r /\ proc.state = "running"
  /\ proc' = [NoProc EXCEPT !.req = r, !.state = "killed"]
  /\ req' = [req EXCEPT ![r].pc = "done", ![r].called = NoCall]
  /\ enabled' = EnabledAfter(enabled, "TimeoutExpired", 0)
  /\ log' = log \o Printed("TimeoutExpired", 0)
  /\ UNCHANGED <<KNOWN_COMPLETIONS, loader, asyncQueue, view>>

\* zsh ends by itself, having run the script in one of the ways of `runs`
ProcessExit(r, runs) ==
  /\ req[r].pc = "launched"
  /\ proc.req = r /\ proc.state = "running"
  /\ \E how \in runs :
       LET out == ZshCapture(how)
       IN proc' = [req |-> r, state |-> "exited", kind |-> how.kind, pty |-> how.pty,
                   stdout |-> out.stdout, returncode |-> out.returncode,
                   args |-> proc.args, cwd |-> proc.cwd]
  /\ UNCHANGED <<enabled, KNOWN_COMPLETIONS, loader, req, asyncQueue, log, view>>

\* check_output returns the bytes, or raises CalledProcessError; the rest of
\* get_completions runs
CheckOutputReturns(r) ==
  /\ req[r].pc = "launched"
  /\ proc.req = r /\ proc.state = "exited"
  /\ IF proc.returncode = 0
     THEN /\ req' = [req EXCEPT ![r].pc = "done", ![r].called = NoCall,
                                ![r].completions_list =
                                    set_completions(@,
                                      completion_items(proc.stdout, KNOWN_COMPLETIONS))]
          /\ enabled' = EnabledAfter(enabled, "returned", 0)
          /\ UNCHANGED log
     ELSE /\ req' = [req EXCEPT ![r].pc = "done", ![r].called = NoCall]
          /\ enabled' = EnabledAfter(enabled, "CalledProcessError", proc.returncode)
          /\ log' = log \o Printed("CalledProcessError", proc.returncode)
  /\ proc' = [proc EXCEPT !.state = "reaped", !.pty = <<>>]
  /\ UNCHANGED <<KNOWN_COMPLETIONS, loader, asyncQueue, view>>

\* ------------------------------------------------------------ the program
Next ==
  \/ PluginLoadedBegin
  \/ \E trigger \in TriggerSet : PluginLoadedItem(trigger)
  \/ PluginLoadedEnd
  \/ \E r \in Req, match \in BOOLEAN : on_query_completions(r, match)
  \/ \E r \in Req, found \in BOOLEAN : GetCompletionsCall(r, found)
  \/ \E r \in Req : Timeout(r)
  \/ \E r \in Req : ProcessExit(r, SessionRuns)
  \/ \E r \in Req : CheckOutputReturns(r)

Spec == Init /\ [][Next]_vars

\* ------------------------------------------ the listener under an editor
\* The user goes on typing and saves the buffer under a name while requests
\* are in flight: on_query_completions runs on the main thread, the
\* callbacks of set_timeout_async later, on the async thread.
ViewLines == {<<"a">>, <<"a", "b">>}
FileNames == {<<>>, << <<"/", "d", "/", "f">> >>}

\* the text of the line at pt changes
BufferEdit(text) ==
  /\ view.line # text
  /\ view' = [view EXCEPT !.line = text]
  /\ UNCHANGED <<enabled, KNOWN_COMPLETIONS, loader, req, asyncQueue, proc, log>>

\* the buffer is saved under a name, or under another name
FileNameChange(name) ==
  /\ name # <<>>
  /\ view.file_name # name
  /\ view' = [view EXCEPT !.file_name = name]
  /\ UNCHANGED <<enabled, KNOWN_COMPLETIONS, loader, req, asyncQueue, proc, log>>

NextView ==
  \/ Next
  \/ \E text \in ViewLines : BufferEdit(text)
  \/ \E name \in FileNames : FileNameChange(name)

SpecView == Init /\ [][NextView]_vars

\* ------------------------------------------- the read loop on its own
\* One check_output call is waiting for zsh; the script then runs over any
\* pty stream of PtyStreams.
InitLoop ==
  /\ enabled = TRUE
  /\ KNOWN_COMPLETIONS \in KnownSets
  /\ loader = "idle"
  /\ view = NewView
  /\ req = [r \in Req |-> IF r = 1
                          THEN [pc |-> "launched", ret |-> "list",
                                completions_list |-> CompletionList,
                                called |-> AtCall]
                          ELSE FreshReq]
  /\ asyncQueue = <<>>
  /\ proc = [NoProc EXCEPT !.req = 1, !.state = "running",
                            !.args = Args(view.line), !.cwd = Cwd(view.file_name)]
  /\ log = <<>>

NextLoop == ProcessExit(1, PtyRuns)

SpecLoop == InitLoop /\ [][NextLoop]_vars

\* --------------------------------------- completion_items on its own
\* zsh has exited with code 0 and any output of RawBatches, under any set
\* of known words; check_output returns and completion_items runs.
InitItems ==
  /\ enabled = TRUE
  /\ KNOWN_COMPLETIONS \in SUBSET KnownWords
  /\ loader = "idle"
  /\ view = NewView
  /\ req = [r \in Req |-> IF r = 1
                          THEN [pc |-> "launched", ret |-> "list",
                                completions_list |-> CompletionList,
                                called |-> AtCall]
                          ELSE FreshReq]
  /\ asyncQueue = <<>>
  /\ \E batch \in RawBatches :
       proc = [req |-> 1, state |-> "exited", kind |-> "session", pty |-> <<>>,
               stdout |-> Echo(batch), returncode |-> 0,
               args |-> Args(view.line), cwd |-> Cwd(view.file_name)]
  /\ log = <<>>

NextItems == CheckOutputReturns(1)

SpecItems == InitItems /\ [][NextItems]_vars

\* ============================================================ properties
\* the candidates the caller of a request has got
Candidates(rec) == rec.completions_list.items

\* a step that is a call of on_query_completions on slot r
Issued(r) == req[r].pc \in {"idle", "done"} /\ req'[r] # req[r]

\* a step in which get_completions of slot r calls check_output
CheckOutputCalled(r) == req[r].pc = "queued" /\ req'[r].pc # "queued"

\* the call of slot r finds no zsh
NotFoundStep(r) == CheckOutputCalled(r) /\ proc'.state = "notfound"

\* the call of slot r ends with TimeoutExpired
TimeoutStep(r) ==
  req[r].pc = "launched" /\ req'[r].pc = "done" /\ proc'.state = "killed"

\* the call of slot r ends after zsh has exited with proc.returncode
ExitStep(r) ==
  req[r].pc = "launched" /\ req'[r].pc = "done" /\ proc.state = "exited"

\* C1: once enabled is false, no step of any operation makes it true again.
C1_DisableIrreversible == [][enabled = FALSE => enabled' = FALSE]_vars

\* a launch has returned normally after the listener was disabled
C1_Witness ==
  /\ enabled = FALSE
  /\ proc.state = "reaped" /\ proc.returncode = 0
  /\ req[proc.req].completions_list.set

\* C2 (as stated): no call of check_output starts a zsh process while enabled
\* is false.
C2_NoLaunchOnceDisabled ==
  [][\A r \in Req :
       (CheckOutputCalled(r) /\ proc'.state = "running") => enabled]_vars

\* C3: a call of on_query_completions while enabled is false returns None,
\* queues no callback and starts no process.
C3_DisabledRequestRejected ==
  [][\A r \in Req :
       (enabled = FALSE /\ Issued(r))
       => /\ req'[r].pc = "done"
          /\ req'[r].ret = None
          /\ req'[r].completions_list = CompletionList
          /\ asyncQueue' = asyncQueue
          /\ proc' = proc]_vars

\* every slot, the one of the request that disabled the listener too, has
\* been called again since and got None
C3_Witness ==
  /\ enabled = FALSE
  /\ \A r \in Req : req[r].pc = "done" /\ req[r].ret = None

\* C4: a call that ends with FileNotFoundError or with return code 1 or 2
\* sets enabled to false and gives the request no candidates, whatever is
\* on stdout.
C4_FatalLaunchDisables ==
  [][\A r \in Req :
       (NotFoundStep(r) \/ (ExitStep(r) /\ proc.returncode \in {1, 2}))
       => /\ enabled' = FALSE
          /\ Candidates(req'[r]) = <<>>]_vars

\* a zsh that wrote lines and exited with 2 has been handled
C4_Witness ==
  /\ proc.state = "reaped" /\ proc.returncode = 2 /\ proc.stdout # <<>>
  /\ req[proc.req].pc = "done" /\ req[proc.req].ret = "list"
  /\ enabled = FALSE

\* C5: a call that ends with TimeoutExpired or with a return code other than
\* 0, 1 and 2 leaves enabled as it was and gives the request no candidates;
\* and whenever enabled is true, a call of on_query_completions on a matching
\* position is accepted.
AcceptStep(r) == on_query_completions(r, TRUE) /\ req'[r].pc = "queued"

C5_NonFatalLeavesState ==
  /\ [][\A r \in Req :
          (TimeoutStep(r) \/ (ExitStep(r) /\ proc.returncode \notin {0, 1, 2}))
          => /\ enabled' = enabled
             /\ Candidates(req'[r]) = <<>>]_vars
  /\ [](\A r \in Req :
          (enabled /\ req[r].pc \in {"idle", "done"}) => ENABLED AcceptStep(r))

\* a request has failed without disabling, and the process of another
\* request runs
C5_Witness ==
  /\ enabled
  /\ proc.state = "running"
  /\ \E r \in Req :
       /\ r # proc.req
       /\ req[r].pc = "done" /\ req[r].ret = "list" /\ ~req[r].completions_list.set

\* C6 (as stated, in its finite form): a request that was accepted and whose
\* get_completions has ended has had set_completions called on its list.
C6_AcceptedIsDelivered ==
  \A r \in Req :
    (req[r].ret = "list" /\ req[r].pc = "done") => req[r].completions_list.set

\* C7 (as stated): return code 0 with empty stdout gives the request an empty
\* list of records and leaves enabled as it was.
C7_EmptyOutputNoRecords ==
  [][\A r \in Req :
       (ExitStep(r) /\ proc.returncode = 0 /\ proc.stdout = <<>>)
       => /\ req'[r].completions_list = set_completions(CompletionList, <<>>)
          /\ enabled' = enabled]_vars

\* a line that is the sentinel exactly: a single NUL, then CR
SentinelAt(pty) == {i \in 1 .. Len(pty) : pty[i] = <<NUL, CR>>}

\* a line that ends in NUL CR
EndsInNulCr(line) == Len(line) >= 2 /\ SubSeq(line, Len(line) - 1, Len(line)) = <<NUL, CR>>
ToggleAt(pty) == {i \in 1 .. Len(pty) : EndsInNulCr(pty[i])}

\* C8 (as stated): a session whose pty stream holds zero or one sentinel line
\* is no process error: the return code is 0, the request gets no candidates,
\* enabled stays as it was and nothing is printed.
C8_MalformedNotAnError ==
  [][\A r \in Req :
       (ExitStep(r) /\ proc.kind = "session" /\ Cardinality(SentinelAt(proc.pty)) <= 1)
       => /\ proc.returncode = 0
          /\ Candidates(req'[r]) = <<>>
          /\ enabled' = enabled
          /\ log' = log]_vars

\* the lines strictly between the first and the last of the lines at `at`
Between(pty, at) ==
  LET first == CHOOSE i \in at : \A j \in at : i <= j
      last == CHOOSE i \in at : \A j \in at : j <= i
  IN SubSeq(pty, first + 1, last - 1)

\* C9 (as stated): a pty stream with exactly two lines that are the sentinel
\* exactly makes the loop echo the lines strictly between the two, in order,
\* and nothing else.
C9_BetweenExactSentinels ==
  (proc.state = "exited" /\ proc.kind = "session"
     /\ Cardinality(SentinelAt(proc.pty)) = 2)
  => proc.stdout = Echo(Between(proc.pty, SentinelAt(proc.pty)))

\* C9 (amended): a pty stream with exactly two lines that end in NUL CR makes
\* the loop echo the lines strictly between the two, in order, and nothing
\* else, and return 0.
C9_BetweenToggleLines ==
  (proc.state = "exited" /\ proc.kind = "session"
     /\ Cardinality(ToggleAt(proc.pty)) = 2)
  => /\ proc.stdout = Echo(Between(proc.pty, ToggleAt(proc.pty)))
     /\ proc.returncode = 0

\* a stream with a line before the first toggle line, two different lines
\* between the two, and a line after the second
C9_Witness ==
  /\ proc.state = "exited" /\ proc.kind = "session"
  /\ ToggleAt(proc.pty) = {2, 5}
  /\ Len(proc.pty) = 6
  /\ proc.pty[3] # proc.pty[4]
  /\ proc.stdout = proc.pty[3] \o <<LF>> \o proc.pty[4] \o <<LF>>

\* the words of a list of records
Words(items) == [i \in 1 .. Len(items) |-> items[i].trigger]

\* C10: the records completion_items emits have pairwise different words, and
\* none of the words is in KNOWN_COMPLETIONS.
C10_NoDuplicateNoKnown ==
  \A r \in Req :
    req[r].completions_list.set
    => LET words == Words(req[r].completions_list.items)
       IN /\ \A i, j \in 1 .. Len(words) : i # j => words[i] # words[j]
          /\ \A i \in 1 .. Len(words) : words[i] \notin KNOWN_COMPLETIONS

\* an output with a repeated word outside KNOWN_COMPLETIONS and a word inside
\* it has been turned into records
C10_Witness ==
  /\ proc.state = "reaped"
  /\ req[1].completions_list.set
  /\ LET lines == Split(proc.stdout, CRLF)
         word(i) == Split1(lines[i], SEP)[1]
     IN /\ \E i, j \in 1 .. Len(lines) :
             i < j /\ word(i) = word(j) /\ word(i) \notin KNOWN_COMPLETIONS
        /\ \E k \in 1 .. Len(lines) : word(k) \in KNOWN_COMPLETIONS

\* the lines of an output: what stands before each CR LF
OutputLines(data) ==
  LET pieces == Split(data, CRLF)
  IN SubSeq(pieces, 1, Len(pieces) - 1)

\* where the first " -- " of a line starts, 0 when it has none
FirstSep(line) ==
  LET at == {i \in 1 .. Len(line) - 3 : SubSeq(line, i, i + 3) = SEP}
  IN IF at = {} THEN 0 ELSE CHOOSE i \in at : \A j \in at : i <= j

\* the word of a line: the text before its first " -- "
WordOf(line) ==
  IF FirstSep(line) = 0 THEN line ELSE SubSeq(line, 1, FirstSep(line) - 1)

\* a sequence of words without the words of `seen` and without repetitions,
\* in the order of first appearance
RECURSIVE FirstAppearances(_, _)
FirstAppearances(words, seen) ==
  IF words = <<>> THEN <<>>
  ELSE IF Head(words) \in seen THEN FirstAppearances(Tail(words), seen)
  ELSE <<Head(words)>> \o FirstAppearances(Tail(words), seen \cup {Head(words)})

\* C11 (as stated): the words of the records are the words of the lines of
\* the output, without the words of KNOWN_COMPLETIONS and without later
\* repetitions, in the order of first appearance.
C11_WordsInFirstAppearance ==
  \A r \in Req :
    (req[r].completions_list.set /\ proc.req = r /\ proc.state = "reaped")
    => LET lines == OutputLines(proc.stdout)
           input == [i \in 1 .. Len(lines) |-> WordOf(lines[i])]
       IN Words(req[r].completions_list.items)
            = FirstAppearances(input, KNOWN_COMPLETIONS)

\* C12 (as stated): print() writes the diagnostic of a permanent disable at
\* most once, whatever the number and interleaving of requests.
C12_DiagnosticAtMostOnce == Len(log) <= 1

\* C13: a zsh process runs only while the request it was started for is
\* unresolved; the step that resolves a launched request leaves its process
\* killed (timeout) or reaped (it had exited, with any return code), and the
\* step of a timeout leaves it killed.
C13_NotRunningWhenResolved ==
  /\ [](\A r \in Req :
          (proc.req = r /\ proc.state = "running") => req[r].pc = "launched")
  /\ [][\A r \in Req :
          (req[r].pc = "launched" /\ req'[r].pc = "done")
          => /\ proc'.req = r
             /\ proc'.state \in {"killed", "reaped"}
             /\ (proc.state = "running" => proc'.state = "killed")]_vars

\* a request has ended by timeout, its process killed and no candidates set
C13_Witness ==
  /\ proc.state = "killed"
  /\ req[proc.req].pc = "done"
  /\ ~req[proc.req].completions_list.set

\* the raw line a record stands for: the word alone when the description is
\* the default one, else word, separator and description
LineOf(item) ==
  IF item.details = DEFAULT_DETAILS THEN item.trigger
  ELSE item.trigger \o SEP \o item.details

\* the output that has the lines of a sequence of records, CR LF after each
RECURSIVE Rebuilt(_)
Rebuilt(items) ==
  IF items = <<>> THEN <<>>
  ELSE LineOf(Head(items)) \o CRLF \o Rebuilt(Tail(items))

\* C14: completion_items run again on the lines rebuilt from the records it
\* gave, with the same known words, gives the same records in the same order.
C14_Idempotent ==
  \A r \in Req :
    (req[r].completions_list.set /\ proc.req = r /\ proc.state = "reaped")
    => LET items == req[r].completions_list.items
       IN completion_items(Rebuilt(items), KNOWN_COMPLETIONS) = items

\* the records hold a word whose description has a separator and a word with
\* the default description, and lines of the first run were dropped
C14_Witness ==
  /\ proc.state = "reaped" /\ req[proc.req].completions_list.set
  /\ KNOWN_COMPLETIONS # {}
  /\ LET items == req[proc.req].completions_list.items
     IN /\ Len(items) >= 3
        /\ \E i \in DOMAIN items : FirstSep(items[i].details) # 0
        /\ \E i \in DOMAIN items :
             items[i].details = DEFAULT_DETAILS /\ items[i].trigger # <<>>
        /\ Len(OutputLines(proc.stdout)) > Len(items)

\* the smallest number of a non-empty set of line numbers
First(at) == CHOOSE i \in at : \A j \in at : i <= j

\* what a loop that counts the lines at `at`, and no other, as sentinels
\* writes and returns: nothing before the first of them, every line after it
\* up to the second, and 0 if there is a second, else 2
Framed(pty, at) ==
  IF at = {} THEN [stdout |-> <<>>, returncode |-> 2]
  ELSE LET first == First(at)
           rest == at \ {first}
       IN IF rest = {}
          THEN [stdout |-> Echo(SubSeq(pty, first + 1, Len(pty))), returncode |-> 2]
          ELSE [stdout |-> Echo(SubSeq(pty, first + 1, First(rest) - 1)),
                returncode |-> 0]

\* C15 (as stated): the loop counts exactly the lines that are NUL alone as
\* sentinels; every other line, one with text before a trailing NUL too, is
\* echoed while reporting and leaves the toggle as it is.
C15_CountsExactSentinels ==
  (proc.state = "exited" /\ proc.kind = "session")
  => [stdout |-> proc.stdout, returncode |-> proc.returncode]
       = Framed(proc.pty, SentinelAt(proc.pty))

\* C15 (amended): the loop counts exactly the lines that end in NUL CR as
\* sentinels, those with text before the NUL too: such a line is never
\* echoed and advances the toggle; every other line is echoed while
\* reporting and leaves the toggle as it is.
C15_CountsLinesEndingInNul ==
  (proc.state = "exited" /\ proc.kind = "session")
  => [stdout |-> proc.stdout, returncode |-> proc.returncode]
       = Framed(proc.pty, ToggleAt(proc.pty))

\* a stream that opens with a line of text and a trailing NUL, then a payload
\* line, then the exact sentinel: the payload line alone is echoed
C15_Witness ==
  /\ proc.state = "exited" /\ proc.kind = "session"
  /\ Len(proc.pty) >= 3
  /\ proc.pty[1] = <<"a", NUL, CR>>
  /\ ~EndsInNulCr(proc.pty[2])
  /\ proc.pty[3] = <<NUL, CR>>
  /\ proc.stdout = proc.pty[2] \o <<LF>>
  /\ proc.returncode = 0

\* C16 (as stated): every record completion_items emits has a non-empty word.
C16_WordsNonEmpty ==
  \A r \in Req :
    req[r].completions_list.set
    => \A i \in DOMAIN req[r].completions_list.items :
         req[r].completions_list.items[i].trigger # <<>>

\* C17 (as stated): the records a request gets are the output filtered
\* against KNOWN_COMPLETIONS as it was when on_query_completions was called,
\* whatever plugin_loaded did to the set since.
C17_FiltersAgainstSetAtCall ==
  [][\A r \in Req :
       (ExitStep(r) /\ proc.returncode = 0)
       => Candidates(req'[r]) = completion_items(proc.stdout, req[r].called.known)]_vars

\* C18 (as stated): the zsh process of a request is started with the text of
\* the line and the directory as they were when on_query_completions was
\* called, whatever was typed or saved since.
C18_LaunchUsesQueryAtCall ==
  [][\A r \in Req :
       (CheckOutputCalled(r) /\ proc'.state = "running")
       => /\ proc'.args = Args(req[r].called.text)
          /\ proc'.cwd = req[r].called.cwd]_vars

\* the description of a line: all the text after its first " -- ", or the
\* default description when the line has none
DescriptionOf(line) ==
  IF FirstSep(line) = 0 THEN DEFAULT_DETAILS
  ELSE SubSeq(line, FirstSep(line) + Len(SEP), Len(line))

\* C19: every record stands for the first line that has its word, the word
\* being the text before the first " -- " of the line and the description
\* all the text after it, later " -- " included, or "file or folder" when the
\* line has no " -- "; every line whose word is not known has a record.
C19_SplitAtFirstSeparator ==
  \A r \in Req :
    (req[r].completions_list.set /\ proc.req = r /\ proc.state = "reaped")
    => LET pieces == Split(proc.stdout, CRLF)
           items == req[r].completions_list.items
       IN /\ \A i \in DOMAIN items :
               \E j \in DOMAIN pieces :
                 /\ items[i].trigger = WordOf(pieces[j])
                 /\ \A k \in 1 .. j - 1 : WordOf(pieces[k]) # WordOf(pieces[j])
                 /\ items[i].details = DescriptionOf(pieces[j])
          /\ \A j \in DOMAIN pieces :
               WordOf(pieces[j]) \notin KNOWN_COMPLETIONS
               => \E i \in DOMAIN items : items[i].trigger = WordOf(pieces[j])

\* the output had a line with two separators and a line with none: the first
\* has a record whose description holds the second separator, the other a
\* record with the default description
C19_Witness ==
  /\ proc.state = "reaped" /\ req[proc.req].completions_list.set
  /\ LET items == req[proc.req].completions_list.items
     IN /\ \E i \in DOMAIN items :
             /\ items[i].trigger = <<"b">>
             /\ items[i].details = <<"d">> \o SEP \o <<"e">>
        /\ \E i \in DOMAIN items :
             /\ items[i].trigger = <<"c">>
             /\ items[i].details = DEFAULT_DETAILS

====
